---- MODULE Spec2Model ----
(***************************************************************************)
(* Model of the preprocessing pipeline of jsonl_data_utils.py: the corpus  *)
(* splitter, the vocabulary builder and loader, the encoder, the id        *)
(* materializer and the orchestrator, acting on a file system.             *)
(*                                                                         *)
(* A string (Python 2 str / bytes) is a sequence of one-character strings. *)
(* A file is the sequence of its bytes.  json.loads / json.load belong to  *)
(* the standard library: a corpus line is modelled by the value it parses  *)
(* to (a record with the strings q and a) or by BadLine when it does not   *)
(* parse; the external vocabulary by the w2id mapping it parses to.        *)
(***************************************************************************)
EXTENDS Integers, Sequences, FiniteSets, TLC

VARIABLES
    corpus,     \* input: set name -> the parsed lines of <name>.jsonl
    w2id,       \* input: the w2id mapping of the external vocabulary JSON
    files,      \* the file system: path -> bytes, for the paths that exist
    pc,         \* position of a running prepare_jsonlbpe_data, or "idle"
    kills,      \* number of times the process was killed during a write
    last        \* the last call: function, argument, outcome, return value

vars == <<corpus, w2id, files, pc, kills, last>>

----------------------------------------------------------------------------
(* Bounds of the model *)

\* longest training corpus, in lines
MaxRecords == 2
\* number of times the process may be killed in the middle of a write
MaxKills == 1
\* bytes a buffered writer hands to the disk at a time (the real buffers
\* hold thousands of bytes, the modelled files a few dozen)
BlockSize == 2

----------------------------------------------------------------------------
(* Strings *)

NL == "\n"
SP == " "
\* bytes.strip() / bytes.split() whitespace (\v has no TLA+ escape)
Whitespace == {" ", "\t", "\n", "\r", "\f"}

RECURSIVE Concat(_)
\* "".join(seqs)
Concat(seqs) ==
    IF seqs = <<>> THEN <<>> ELSE Head(seqs) \o Concat(Tail(seqs))

\* s.replace('\n', '')
RemoveNewlines(s) == SelectSeq(s, LAMBDA ch : ch # NL)

\* index of the first newline of b, 0 when there is none
FirstNL(b) ==
    IF \E i \in 1..Len(b) : b[i] = NL
    THEN CHOOSE i \in 1..Len(b) : b[i] = NL /\ \A j \in 1..(i-1) : b[j] # NL
    ELSE 0

RECURSIVE readlines(_)
\* iterating a file / f.readlines(): each line keeps its "\n"; a last line
\* without one is still a line
readlines(b) ==
    IF b = <<>> THEN <<>>
    ELSE LET k == FirstNL(b) IN
         IF k = 0 THEN <<b>>
         ELSE <<SubSeq(b, 1, k)>> \o readlines(SubSeq(b, k + 1, Len(b)))

RECURSIVE lstrip(_)
lstrip(s) ==
    IF s # <<>> /\ Head(s) \in Whitespace THEN lstrip(Tail(s)) ELSE s

RECURSIVE rstrip(_)
rstrip(s) ==
    IF s # <<>> /\ s[Len(s)] \in Whitespace
    THEN rstrip(SubSeq(s, 1, Len(s) - 1)) ELSE s

\* s.strip()
strip(s) == rstrip(lstrip(s))

\* length of the run of non-whitespace characters s starts with
RECURSIVE WordLen(_)
WordLen(s) ==
    IF s = <<>> \/ Head(s) \in Whitespace THEN 0 ELSE 1 + WordLen(Tail(s))

RECURSIVE split(_)
\* s.split(): the maximal runs of non-whitespace characters, in order
split(s) ==
    LET t == lstrip(s) IN
    IF t = <<>> THEN <<>>
    ELSE LET n == WordLen(t) IN
         <<SubSeq(t, 1, n)>> \o split(SubSeq(t, n + 1, Len(t)))

Digits == <<"0", "1", "2", "3", "4", "5", "6", "7", "8", "9">>

RECURSIVE str(_)
\* str(n) for a natural number: its decimal digits
str(n) ==
    IF n < 10 THEN <<Digits[n + 1]>>
    ELSE str(n \div 10) \o <<Digits[(n % 10) + 1]>>

RECURSIVE join(_, _)
\* sep.join(parts)
join(sep, parts) ==
    IF parts = <<>> THEN <<>>
    ELSE IF Len(parts) = 1 THEN parts[1]
    ELSE parts[1] \o sep \o join(sep, Tail(parts))

----------------------------------------------------------------------------
(* The file system (gfile / open) *)

Exists(f, path) == path \in DOMAIN f

\* the file system after path is created or truncated and data written to it
WriteFile(f, path, data) ==
    [p \in (DOMAIN f) \cup {path} |-> IF p = path THEN data ELSE f[p]]

NoFiles == [p \in {} |-> <<>>]

\* what a killed writer may leave in its file: the blocks of data it had
\* flushed, short of all of data
Prefixes(data) ==
    {SubSeq(data, 1, n) : n \in {m \in 0..(Len(data) - 1) : m % BlockSize = 0}}

----------------------------------------------------------------------------
(* Paths *)

data_dir == "data"
SetNames == {"train", "dev"}
Sides == {".src", ".targ"}

\* os.path.join(directory, set_name), set_name being the corpus file's
\* base name without its extension
set_path(name) == data_dir \o "/" \o name
src_path(name) == set_path(name) \o ".src"
targ_path(name) == set_path(name) \o ".targ"
vocab_path == data_dir \o "/vocab.txt"
\* variant: both sides of a set share one ids file
IdsPathWithoutSide(name, side) == set_path(name) \o ".ids"
ids_path(name, side) == set_path(name) \o side \o ".ids"

----------------------------------------------------------------------------
(* Special vocabulary symbols *)

_PAD == <<"_", "P", "A", "D">>
_GO == <<"_", "G", "O">>
_EOS == <<"_", "E", "O", "S">>
_UNK == <<"_", "U", "N", "K">>
_START_VOCAB == <<_PAD, _GO, _EOS, _UNK>>

UNK_ID == 3

----------------------------------------------------------------------------
(* get_qa_set *)

\* a corpus line that parses to an object with the strings q and a
Record(q, a) == [bad |-> FALSE, q |-> q, a |-> a]
\* a corpus line json.loads rejects
BadLine == [bad |-> TRUE, q |-> <<>>, a |-> <<>>]

\* the lines the loop handles before json.loads raises (all, if it never does)
RECURSIVE ParsedPrefix(_)
ParsedPrefix(recs) ==
    IF recs = <<>> \/ Head(recs).bad THEN <<>>
    ELSE <<Head(recs)>> \o ParsedPrefix(Tail(recs))

\* what one record contributes to an output file
\* variant: the value is written as it is
SplitLineKeepingNewlines(value) == value \o <<NL>>
SplitLine(value) == RemoveNewlines(value) \o <<NL>>

\* what the loop writes to the .src file (key "q") or the .targ file ("a")
SplitText(recs, key) ==
    Concat([i \in 1..Len(recs) |-> SplitLine(recs[i][key])])

\* variant: the split is always made again
SplitNeverDone(f, name) == FALSE
\* the early return: both outputs are there
SplitIsDone(f, name) == Exists(f, src_path(name)) /\ Exists(f, targ_path(name))

\* The outcomes of get_qa_set(data_dir, <name>.jsonl) on file system f with
\* corpus recs: the file system it leaves and how it ended.
get_qa_set(f, name, recs, mayCrash) ==
    IF SplitIsDone(f, name)
    THEN {[files |-> f, outcome |-> "skipped"]}
    ELSE IF ~Exists(f, data_dir)
    THEN \* open(src_path, 'w') raises: no such directory
         {[files |-> f, outcome |-> "io_error"]}
    ELSE LET good == ParsedPrefix(recs)
             src == SplitText(good, "q")
             targ == SplitText(good, "a")
         IN  {[files |-> WriteFile(WriteFile(f, src_path(name), src),
                                   targ_path(name), targ),
               outcome |-> IF Len(good) = Len(recs) THEN "done"
                           ELSE "malformed_json"]}
             \cup
             IF mayCrash
             THEN \* killed between the two opens, or later with any part
                  \* of the buffered output on disk
                  {[files |-> WriteFile(f, src_path(name), <<>>),
                    outcome |-> "killed"]}
                  \cup
                  {[files |-> WriteFile(WriteFile(f, src_path(name), s),
                                        targ_path(name), t),
                    outcome |-> "killed"] :
                      <<s, t>> \in ((Prefixes(src) \cup {src})
                                      \X (Prefixes(targ) \cup {targ}))
                                    \ {<<src, targ>>}}
             ELSE {}

----------------------------------------------------------------------------
(* create_vocabulary *)

MinId(vocab) ==
    CHOOSE m \in {vocab[t] : t \in DOMAIN vocab} :
        \A t \in DOMAIN vocab : m <= vocab[t]

Restrict(fn, S) == [x \in S |-> fn[x]]

RECURSIVE SortedByValueDescending(_)
\* variant: the keys by descending value
SortedByValueDescending(vocab) ==
    IF DOMAIN vocab = {} THEN {<<>>}
    ELSE UNION {{rest \o <<t>> :
                    rest \in SortedByValueDescending(
                                 Restrict(vocab, DOMAIN vocab \ {t}))} :
                t \in {u \in DOMAIN vocab : vocab[u] = MinId(vocab)}}

RECURSIVE SortedByValue(_)
\* sorted(vocab, key=vocab.get): the keys by ascending value.  The sort is
\* stable and the dictionary's iteration order is arbitrary, so keys with
\* equal values may come in any order: the set of possible results.
SortedByValue(vocab) ==
    IF DOMAIN vocab = {} THEN {<<>>}
    ELSE UNION {{<<t>> \o rest :
                    rest \in SortedByValue(
                                 Restrict(vocab, DOMAIN vocab \ {t}))} :
                t \in {u \in DOMAIN vocab : vocab[u] = MinId(vocab)}}

\* variant: the special symbols are left out
VocabListWithoutStart(sorted) == sorted
\* vocab_list = _START_VOCAB + sorted(vocab, key=vocab.get)
VocabList(sorted) == _START_VOCAB \o sorted

\* the bytes written for vocab_list: each w followed by "\n"
VocabText(vocab_list) ==
    Concat([i \in 1..Len(vocab_list) |-> vocab_list[i] \o <<NL>>])

\* The outcomes of create_vocabulary(vocab_path, vocab_file).
create_vocabulary(f, vocab, mayCrash) ==
    IF Exists(f, vocab_path)
    THEN {[files |-> f, outcome |-> "skipped"]}
    ELSE IF ~Exists(f, data_dir)
    THEN {[files |-> f, outcome |-> "io_error"]}
    ELSE UNION {
           LET text == VocabText(VocabList(sorted)) IN
             {[files |-> WriteFile(f, vocab_path, text), outcome |-> "done"]}
             \cup
             IF mayCrash
             THEN \* killed before the GFile's first write, or later
                  {[files |-> f, outcome |-> "killed"]}
                  \cup
                  {[files |-> WriteFile(f, vocab_path, part),
                    outcome |-> "killed"] : part \in Prefixes(text)}
             ELSE {}
           : sorted \in SortedByValue(vocab)}

----------------------------------------------------------------------------
(* initialize_vocabulary *)

\* rev_vocab = [line.strip() for line in f.readlines()]
RevVocab(data) ==
    LET lines == readlines(data) IN
    [i \in 1..Len(lines) |-> strip(lines[i])]

\* variant: an earlier pair is kept over a later one
DictKeepingFirst(rev) ==
    [t \in {rev[i] : i \in 1..Len(rev)} |->
        (CHOOSE i \in 1..Len(rev) :
            rev[i] = t /\ \A j \in 1..(i - 1) : rev[j] # t) - 1]
\* dict([(x, y) for (y, x) in enumerate(rev_vocab)]): a later pair replaces
\* an earlier one with the same key; enumerate counts from 0
DictOfEnumerate(rev) ==
    [t \in {rev[i] : i \in 1..Len(rev)} |->
        (CHOOSE i \in 1..Len(rev) :
            rev[i] = t /\ \A j \in (i + 1)..Len(rev) : rev[j] # t) - 1]

\* the pair initialize_vocabulary returns for an existing vocabulary file
initialize_vocabulary(data) ==
    [vocab |-> DictOfEnumerate(RevVocab(data)), rev_vocab |-> RevVocab(data)]

----------------------------------------------------------------------------
(* sentence_to_token_ids *)

\* variant: an unknown token gets PAD_ID
SentenceToTokenIdsUnknownZero(sentence, vocabulary) ==
    LET words == split(strip(sentence)) IN
    [k \in 1..Len(words) |->
        IF words[k] \in DOMAIN vocabulary THEN vocabulary[words[k]] ELSE 0]
\* [vocabulary.get(w, UNK_ID) for w in sentence.strip().split()]
sentence_to_token_ids(sentence, vocabulary) ==
    LET words == split(strip(sentence)) IN
    [k \in 1..Len(words) |->
        IF words[k] \in DOMAIN vocabulary THEN vocabulary[words[k]]
        ELSE UNK_ID]

----------------------------------------------------------------------------
(* data_to_token_ids *)

\* variant: the ids are joined without the blank
IdsLineUnseparated(token_ids) ==
    Concat([k \in 1..Len(token_ids) |-> str(token_ids[k])]) \o <<NL>>
\* " ".join([str(tok) for tok in token_ids]) + "\n"
IdsLine(token_ids) ==
    join(<<SP>>, [k \in 1..Len(token_ids) |-> str(token_ids[k])]) \o <<NL>>

\* what the loop writes for the data file's bytes (tf.compat.as_bytes leaves
\* a byte string as it is)
IdsText(data, vocab) ==
    LET lines == readlines(data) IN
    Concat([i \in 1..Len(lines) |->
                IdsLine(sentence_to_token_ids(lines[i], vocab))])

\* variant: the data is always tokenized again
IdsNeverDone(f, target_path) == FALSE
\* the early return of data_to_token_ids
IdsAreDone(f, target_path) == Exists(f, target_path)

\* variant: the target is opened before the vocabulary is loaded
OpenTargetFirst(f, target_path) == WriteFile(f, target_path, <<>>)
\* the file system when initialize_vocabulary raises: nothing was opened
VocabularyNotFound(f, target_path) == f

\* The outcomes of data_to_token_ids(set_path + side, set_path + side +
\* ".ids", vocab_path).  A GFile is opened by its first read or write:
\* with nothing to write the target may be left uncreated, so both results
\* are kept.
data_to_token_ids(f, name, side, mayCrash) ==
    LET data_path == set_path(name) \o side
        target_path == ids_path(name, side)
    IN
    IF IdsAreDone(f, target_path)
    THEN {[files |-> f, outcome |-> "skipped"]}
    ELSE IF ~Exists(f, vocab_path)
    THEN {[files |-> VocabularyNotFound(f, target_path),
           outcome |-> "vocabulary_not_found"]}
    ELSE IF ~Exists(f, data_path)
    THEN {[files |-> f, outcome |-> "io_error"]}
    ELSE LET vocab == initialize_vocabulary(f[vocab_path]).vocab
             text == IdsText(f[data_path], vocab)
         IN  {[files |-> WriteFile(f, target_path, text), outcome |-> "done"]}
             \cup
             (IF text = <<>>
              THEN {[files |-> f, outcome |-> "done"]} ELSE {})
             \cup
             (IF mayCrash
              THEN {[files |-> f, outcome |-> "killed"]}
                   \cup
                   {[files |-> WriteFile(f, target_path, part),
                     outcome |-> "killed"] : part \in Prefixes(text)}
              ELSE {})

----------------------------------------------------------------------------
(* prepare_jsonlbpe_data *)

\* variant: the vocabulary is built after the data is tokenized
ProgramVocabularyLast ==
    << "mkdir", "get_train", "get_dev", "ids_train_src", "ids_train_targ",
       "ids_dev_src", "ids_dev_targ", "vocab", "return" >>
\* the statements of prepare_jsonlbpe_data, in order
Program ==
    << "mkdir", "get_train", "get_dev", "vocab", "ids_train_src",
       "ids_train_targ", "ids_dev_src", "ids_dev_targ", "return" >>

\* the statement after stmt
Following(stmt) ==
    LET i == CHOOSE k \in 1..Len(Program) : Program[k] = stmt IN
    IF i = Len(Program) THEN "idle" ELSE Program[i + 1]

\* the data_to_token_ids calls: statement -> <<set name, side>>
IdsJob(stmt) ==
    CASE stmt = "ids_train_src" -> <<"train", ".src">>
      [] stmt = "ids_train_targ" -> <<"train", ".targ">>
      [] stmt = "ids_dev_src" -> <<"dev", ".src">>
      [] stmt = "ids_dev_targ" -> <<"dev", ".targ">>
IdsStatements ==
    {"ids_train_src", "ids_train_targ", "ids_dev_src", "ids_dev_targ"}

\* a call that returned (an exception or a kill ends the run)
Returned(outcome) == outcome \in {"done", "skipped"}

----------------------------------------------------------------------------
(* Inputs *)

\* corpus records: a newline ending q, a newline inside a, several words
R1 == Record(<<"x", NL>>, <<"y">>)
R2 == Record(<<"x", SP, "z">>, <<"x", NL, "y">>)
CorpusLines == {R1, R2, BadLine}

RECURSIVE SeqsUpTo(_, _)
SeqsUpTo(S, n) ==
    IF n = 0 THEN {<<>>}
    ELSE LET shorter == SeqsUpTo(S, n - 1) IN
         shorter \cup {Append(c, r) : c \in shorter, r \in S}

TrainCorpora == SeqsUpTo(CorpusLines, MaxRecords)
DevCorpus == <<R1>>

Tok(c) == <<c>>
Map2(t1, i1, t2, i2) == [t \in {t1, t2} |-> IF t = t1 THEN i1 ELSE i2]

\* w2id mappings: ids 0..n-1, enough of them for an id of two digits; a key
\* that is a reserved symbol; none; ids counted from 1; two keys with one id
W2idDense ==
    [t \in {Tok("y"), Tok("a"), Tok("b"), Tok("c"), Tok("d"), <<"x", "y">>,
            Tok("x")} |->
        CASE t = Tok("y") -> 0 [] t = Tok("a") -> 1 [] t = Tok("b") -> 2
          [] t = Tok("c") -> 3 [] t = Tok("d") -> 4 [] t = <<"x", "y">> -> 5
          [] t = Tok("x") -> 6]
W2idReserved == Map2(_UNK, 0, Tok("x"), 1)
W2idEmpty == [t \in {} |-> 0]
W2idFromOne == Map2(Tok("x"), 1, Tok("y"), 2)
W2idTied == Map2(Tok("x"), 0, Tok("y"), 0)
W2idPool == {W2idDense, W2idReserved, W2idEmpty, W2idFromOne, W2idTied}

\* sentences given to sentence_to_token_ids directly
SentencePool ==
    { <<>>,
      <<SP, "x", "\t", "q", NL>>,
      <<"y", SP, SP>> \o _UNK }

----------------------------------------------------------------------------
(* The state machine *)

\* the record of a call; the result fields are empty unless the call
\* returns a vocabulary or token ids
Call(op, arg, outcome) ==
    [op |-> op, arg |-> arg, outcome |-> outcome,
     vocab |-> [t \in {} |-> 0], rev_vocab |-> <<>>,
     sentence |-> <<>>, vocabulary |-> [t \in {} |-> 0], token_ids |-> <<>>]

\* the effect of a call of one of the three file-writing functions
Effect(op, arg, r) ==
    /\ files' = r.files
    /\ last' = Call(op, arg, r.outcome)
    /\ kills' = kills + (IF r.outcome = "killed" THEN 1 ELSE 0)
    /\ UNCHANGED <<corpus, w2id>>

(* prepare_jsonlbpe_data, statement by statement.  The process may be      *)
(* killed in the middle of any of its writes, MaxKills times in all; the   *)
(* next run starts from the top.                                           *)

Init ==
    /\ corpus \in [SetNames -> TrainCorpora]
    /\ corpus["dev"] = DevCorpus
    /\ w2id = W2idDense
    /\ files = NoFiles
    /\ pc = "idle"
    /\ kills = 0
    /\ last = Call("none", <<>>, "none")

PrepareMkDir ==
    /\ pc = "idle"
    /\ files' = IF Exists(files, data_dir) THEN files
                ELSE WriteFile(files, data_dir, <<>>)
    /\ last' = Call("prepare_jsonlbpe_data", <<>>, "started")
    /\ pc' = Following("mkdir")
    /\ UNCHANGED <<corpus, w2id, kills>>

PrepareGetQaSet(name) ==
    /\ pc = "get_" \o name
    /\ \E r \in get_qa_set(files, name, corpus[name], kills < MaxKills) :
          /\ Effect("get_qa_set", <<name>>, r)
          /\ pc' = IF Returned(r.outcome) THEN Following(pc) ELSE "idle"

PrepareCreateVocabulary ==
    /\ pc = "vocab"
    /\ \E r \in create_vocabulary(files, w2id, kills < MaxKills) :
          /\ Effect("create_vocabulary", <<>>, r)
          /\ pc' = IF Returned(r.outcome) THEN Following(pc) ELSE "idle"

PrepareDataToTokenIds ==
    /\ pc \in IdsStatements
    /\ \E r \in data_to_token_ids(files, IdsJob(pc)[1], IdsJob(pc)[2],
                                  kills < MaxKills) :
          /\ Effect("data_to_token_ids", IdsJob(pc), r)
          /\ pc' = IF Returned(r.outcome) THEN Following(pc) ELSE "idle"

PrepareReturn ==
    /\ pc = "return"
    /\ last' = Call("prepare_jsonlbpe_data", <<>>, "done")
    /\ pc' = "idle"
    /\ UNCHANGED <<corpus, w2id, files, kills>>

Next ==
    \/ PrepareMkDir
    \/ \E name \in SetNames : PrepareGetQaSet(name)
    \/ PrepareCreateVocabulary
    \/ PrepareDataToTokenIds
    \/ PrepareReturn

Spec == Init /\ [][Next]_vars

(* The functions called directly, in any order, in an existing data        *)
(* directory.                                                              *)

CallsCorpora == {<<R1, R2>>, <<R1, BadLine>>}

InitCalls ==
    /\ corpus \in [SetNames -> CallsCorpora \cup {DevCorpus}]
    /\ corpus["train"] \in CallsCorpora
    /\ corpus["dev"] = DevCorpus
    /\ w2id \in W2idPool
    /\ files = WriteFile(NoFiles, data_dir, <<>>)
    /\ pc = "idle"
    /\ kills = 0
    /\ last = Call("none", <<>>, "none")

CallGetQaSet(name) ==
    /\ \E r \in get_qa_set(files, name, corpus[name], FALSE) :
          Effect("get_qa_set", <<name>>, r)
    /\ UNCHANGED pc

CallCreateVocabulary ==
    /\ \E r \in create_vocabulary(files, w2id, FALSE) :
          Effect("create_vocabulary", <<>>, r)
    /\ UNCHANGED pc

CallDataToTokenIds(name, side) ==
    /\ \E r \in data_to_token_ids(files, name, side, FALSE) :
          Effect("data_to_token_ids", <<name, side>>, r)
    /\ UNCHANGED pc

CallInitializeVocabulary ==
    /\ last' = IF Exists(files, vocab_path)
               THEN [Call("initialize_vocabulary", <<>>, "done")
                        EXCEPT !.vocab =
                                 initialize_vocabulary(files[vocab_path]).vocab,
                               !.rev_vocab =
                                 initialize_vocabulary(files[vocab_path]).rev_vocab]
               ELSE Call("initialize_vocabulary", <<>>, "vocabulary_not_found")
    /\ UNCHANGED <<corpus, w2id, files, pc, kills>>

\* the mappings at hand: the external one and the loaded vocabulary
Vocabularies ==
    {w2id} \cup IF Exists(files, vocab_path)
                THEN {initialize_vocabulary(files[vocab_path]).vocab}
                ELSE {}

CallSentenceToTokenIds(sentence, vocabulary) ==
    /\ last' = [Call("sentence_to_token_ids", <<>>, "done")
                  EXCEPT !.sentence = sentence,
                         !.vocabulary = vocabulary,
                         !.token_ids =
                            sentence_to_token_ids(sentence, vocabulary)]
    /\ UNCHANGED <<corpus, w2id, files, pc, kills>>

NextCalls ==
    \/ \E name \in SetNames : CallGetQaSet(name)
    \/ CallCreateVocabulary
    \/ \E name \in SetNames, side \in Sides : CallDataToTokenIds(name, side)
    \/ CallInitializeVocabulary
    \/ \E s \in SentencePool, v \in Vocabularies : CallSentenceToTokenIds(s, v)

SpecCalls == InitCalls /\ [][NextCalls]_vars

----------------------------------------------------------------------------
(* Properties of the pipeline, checked under Spec *)

\* a line without its terminating newline
Chomp(line) ==
    IF line # <<>> /\ line[Len(line)] = NL
    THEN SubSeq(line, 1, Len(line) - 1) ELSE line

\* the lines of a file, none if it does not exist
LinesOf(f, path) == IF Exists(f, path) THEN readlines(f[path]) ELSE <<>>

\* C1: when get_qa_set performs the split of a valid corpus of N records,
\* the .src and the .targ file have exactly N lines each, line i of .src
\* being record i's q and line i of .targ record i's a, both without their
\* newline characters.
SplitIsLineAligned ==
    (last.op = "get_qa_set" /\ last.outcome = "done") =>
        LET name == last.arg[1]
            recs == corpus[name]
            src == LinesOf(files, src_path(name))
            targ == LinesOf(files, targ_path(name))
        IN  /\ Len(src) = Len(recs)
            /\ Len(targ) = Len(recs)
            /\ \A i \in 1..Len(recs) :
                 /\ ~recs[i].bad
                 /\ src[i] = SelectSeq(recs[i].q, LAMBDA ch : ch # NL) \o <<NL>>
                 /\ targ[i] = SelectSeq(recs[i].a, LAMBDA ch : ch # NL) \o <<NL>>

\* a split of two records, one with a newline inside a value
SplitIsLineAlignedWitness ==
    /\ last.op = "get_qa_set" /\ last.outcome = "done"
    /\ Len(corpus[last.arg[1]]) = 2
    /\ \E i \in 1..2 : \E k \in 2..(Len(corpus[last.arg[1]][i].a) - 1) :
          corpus[last.arg[1]][i].a[k] = NL


\* C3: a call of get_qa_set, create_vocabulary or data_to_token_ids made
\* when the outputs of that call already exist writes nothing: it leaves
\* every file as it was.
SecondCallWritesNothing ==
    [][ /\ ( /\ last'.op = "get_qa_set"
             /\ Exists(files, src_path(last'.arg[1]))
             /\ Exists(files, targ_path(last'.arg[1])) ) => files' = files
        /\ ( /\ last'.op = "create_vocabulary"
             /\ Exists(files, vocab_path) ) => files' = files
        /\ ( /\ last'.op = "data_to_token_ids"
             /\ Exists(files, ids_path(last'.arg[1], last'.arg[2])) )
           => files' = files
      ]_vars

\* a run that found all its outputs: the three functions were each called
\* a second time and skipped
SecondCallWritesNothingWitness ==
    /\ last.op = "data_to_token_ids" /\ last.outcome = "skipped"
    /\ pc = "return"
    /\ \A name \in SetNames :
          Exists(files, src_path(name)) /\ Exists(files, targ_path(name))

\* C7: when data_to_token_ids writes its target, the target has as many
\* lines as the data file, line i being the ids sentence_to_token_ids gives
\* for line i of the data file, in decimal, separated by single spaces.
IdsFileMatchesData ==
    (last.op = "data_to_token_ids" /\ last.outcome = "done") =>
        LET data == LinesOf(files, set_path(last.arg[1]) \o last.arg[2])
            ids == LinesOf(files, ids_path(last.arg[1], last.arg[2]))
            vocab == initialize_vocabulary(files[vocab_path]).vocab
        IN  /\ Len(ids) = Len(data)
            /\ \A i \in 1..Len(data) :
                 LET toks == sentence_to_token_ids(data[i], vocab) IN
                 ids[i] = join(<<SP>>, [k \in 1..Len(toks) |-> str(toks[k])])
                            \o <<NL>>

\* a data file of two lines, one of several words, has been encoded
IdsFileMatchesDataWitness ==
    /\ last.op = "data_to_token_ids" /\ last.outcome = "done"
    /\ Len(LinesOf(files, set_path(last.arg[1]) \o last.arg[2])) = 2
    /\ \E line \in {LinesOf(files, ids_path(last.arg[1], last.arg[2]))[i] :
                      i \in 1..2} :
          /\ \E k \in 1..Len(line) : line[k] = SP
          /\ \E k \in 1..(Len(line) - 1) : line[k] = "1" /\ line[k + 1] = "0"


\* the orders in which the four data_to_token_ids calls can be made
IdsOrders ==
    {o \in [1..4 -> IdsStatements] : \A i, j \in 1..4 : o[i] = o[j] => i = j}

\* the order of the code
CodeOrder == SubSeq(Program, 5, 8)

RECURSIVE RunIds(_, _)
\* the file systems the data_to_token_ids calls of order can leave, made one
\* after the other from file system f (an exception ends the run)
RunIds(f, order) ==
    IF order = <<>> THEN {f}
    ELSE UNION { IF Returned(r.outcome) THEN RunIds(r.files, Tail(order))
                 ELSE {r.files} :
                 r \in data_to_token_ids(f, IdsJob(order[1])[1],
                                         IdsJob(order[1])[2], FALSE) }

\* C8: in prepare_jsonlbpe_data create_vocabulary has returned before a
\* data_to_token_ids call starts, and from there the four data_to_token_ids
\* calls leave the same files whatever the order they are made in (compared
\* for the runs no kill has interrupted).
IdsCallsAreIndependent ==
    /\ pc \in IdsStatements => Exists(files, vocab_path)
    /\ pc = CodeOrder[1] =>
          /\ last.op = "create_vocabulary" /\ Returned(last.outcome)
          /\ kills = 0 =>
                \A o \in IdsOrders : RunIds(files, o) = RunIds(files, CodeOrder)

\* the vocabulary has just been built and none of the four id files exists
IdsCallsAreIndependentWitness ==
    /\ pc = CodeOrder[1] /\ kills = 0
    /\ last.op = "create_vocabulary" /\ last.outcome = "done"
    /\ \A name \in SetNames, side \in Sides :
          /\ Exists(files, set_path(name) \o side)
          /\ ~Exists(files, ids_path(name, side))

\* the outputs of the three steps, as the sets of files a step skips on
StepOutputs ==
    {{src_path(name), targ_path(name)} : name \in SetNames}
    \cup {{vocab_path}}
    \cup {{ids_path(name, side)} : name \in SetNames, side \in Sides}

\* C9: once an interrupted step has left its output files, whatever part of
\* the output they hold, a later run of the step skips the work and the
\* files keep that content for good.
PartialOutputIsFinal ==
    [][ \A out \in StepOutputs :
          (\A path \in out : Exists(files, path)) =>
             /\ \A path \in out : Exists(files', path)
                                    /\ files'[path] = files[path]
             /\ ( \/ /\ last'.op = "get_qa_set"
                     /\ out = {src_path(last'.arg[1]), targ_path(last'.arg[1])}
                  \/ /\ last'.op = "create_vocabulary"
                     /\ out = {vocab_path}
                  \/ /\ last'.op = "data_to_token_ids"
                     /\ out = {ids_path(last'.arg[1], last'.arg[2])} )
                => last'.outcome = "skipped"
      ]_vars

\* a run has returned although the split of the training corpus stopped at a
\* malformed line and the vocabulary file was cut short by a kill
PartialOutputIsFinalWitness ==
    /\ last.op = "prepare_jsonlbpe_data" /\ last.outcome = "done"
    /\ Len(LinesOf(files, src_path("train"))) < Len(corpus["train"])
    /\ Len(LinesOf(files, vocab_path)) < Len(_START_VOCAB)

----------------------------------------------------------------------------
(* Properties of the functions, checked under SpecCalls *)

\* the call just made loaded the vocabulary file
LoadedVocabulary == last.op = "initialize_vocabulary" /\ last.outcome = "done"

\* C2, as claimed: after create_vocabulary has built the vocabulary file from
\* w2id, initialize_vocabulary maps every token t of w2id to w2id[t] + 4.
RoundTripShiftsIdsByFour ==
    LoadedVocabulary =>
        \A t \in DOMAIN w2id :
            t \in DOMAIN last.vocab /\ last.vocab[t] = w2id[t] + 4

\* the ids of mapping are 0 .. n-1, each the id of one token
IdsAreZeroToN(mapping) ==
    {mapping[t] : t \in DOMAIN mapping} = 0..(Cardinality(DOMAIN mapping) - 1)

\* C2, amended: the same, for the w2id mappings whose ids are exactly
\* 0 .. n-1 for n tokens; for any w2id, a token gets 4 plus the number of
\* tokens before it in the order of their ids.
RoundTripShiftsDenseIdsByFour ==
    LoadedVocabulary =>
        /\ IdsAreZeroToN(w2id) =>
              \A t \in DOMAIN w2id :
                  t \in DOMAIN last.vocab /\ last.vocab[t] = w2id[t] + 4
        /\ \A t \in DOMAIN w2id :
              /\ t \in DOMAIN last.vocab
              /\ last.vocab[t] >=
                    4 + Cardinality({u \in DOMAIN w2id : w2id[u] < w2id[t]})
              /\ last.vocab[t] <
                    4 + Cardinality({u \in DOMAIN w2id : w2id[u] <= w2id[t]})

\* a vocabulary built from several tokens with the ids 0 .. n-1 was loaded
RoundTripWitness ==
    /\ LoadedVocabulary
    /\ IdsAreZeroToN(w2id) /\ Cardinality(DOMAIN w2id) > 2

\* C4: sentence_to_token_ids returns one id per maximal run of
\* non-whitespace characters of the sentence, in order: the mapping's id of
\* the run if the mapping has it, 3 if not.  (The list is determined by the
\* sentence and the mapping, so equal arguments give equal lists.)
EncodesEachToken ==
    last.op = "sentence_to_token_ids" =>
        LET s == last.sentence
            starts == {i \in 1..Len(s) :
                          /\ s[i] \notin Whitespace
                          /\ i = 1 \/ s[i - 1] \in Whitespace}
            Start(k) == CHOOSE i \in starts :
                           Cardinality({j \in starts : j <= i}) = k
            End(i) == CHOOSE e \in i..Len(s) :
                         /\ \A j \in i..e : s[j] \notin Whitespace
                         /\ e = Len(s) \/ s[e + 1] \in Whitespace
            Token(k) == SubSeq(s, Start(k), End(Start(k)))
        IN  /\ Len(last.token_ids) = Cardinality(starts)
            /\ \A k \in 1..Len(last.token_ids) :
                 last.token_ids[k] =
                    IF Token(k) \in DOMAIN last.vocabulary
                    THEN last.vocabulary[Token(k)] ELSE 3

\* a sentence with blanks around a known and an unknown token was encoded
EncodesEachTokenWitness ==
    /\ last.op = "sentence_to_token_ids"
    /\ Len(last.token_ids) = 2
    /\ last.sentence[1] \in Whitespace
    /\ last.token_ids[1] > 3 /\ last.token_ids[2] = 3

\* C5, as claimed: the pair initialize_vocabulary returns satisfies
\* mapping[list[i]] == i for every index i of the list.
LoadedPairIsConsistent ==
    LoadedVocabulary =>
        \A i \in 1..Len(last.rev_vocab) :
            /\ last.rev_vocab[i] \in DOMAIN last.vocab
            /\ last.vocab[last.rev_vocab[i]] = i - 1

\* C5, amended: mapping[list[i]] == i for every index i whose token is not
\* on a later line too (so for every i when no two lines of the file hold
\* the same token); a token on several lines maps to the last of them.
LoadedPairIsConsistentOnLastLines ==
    LoadedVocabulary =>
        \A i \in 1..Len(last.rev_vocab) :
            /\ last.rev_vocab[i] \in DOMAIN last.vocab
            /\ (\A j \in (i + 1)..Len(last.rev_vocab) :
                    last.rev_vocab[j] # last.rev_vocab[i])
               => last.vocab[last.rev_vocab[i]] = i - 1

\* a vocabulary file with one token on two lines was loaded
LoadedPairWitness ==
    /\ LoadedVocabulary
    /\ \E i, j \in 1..Len(last.rev_vocab) :
          i < j /\ last.rev_vocab[i] = last.rev_vocab[j]

\* C6: the file create_vocabulary writes holds _PAD, _GO, _EOS, _UNK on its
\* first four lines, then every key of w2id once, one per line, by ascending
\* id.
VocabularyFileLayout ==
    (last.op = "create_vocabulary" /\ last.outcome = "done") =>
        LET lines == LinesOf(files, vocab_path)
            n == Cardinality(DOMAIN w2id)
        IN  /\ Len(lines) = 4 + n
            /\ \A i \in 1..Len(lines) : lines[i][Len(lines[i])] = NL
            /\ Chomp(lines[1]) = _PAD /\ Chomp(lines[2]) = _GO
            /\ Chomp(lines[3]) = _EOS /\ Chomp(lines[4]) = _UNK
            /\ {Chomp(lines[i]) : i \in 5..(4 + n)} = DOMAIN w2id
            /\ \A i, j \in 5..(4 + n) :
                  i < j => w2id[Chomp(lines[i])] <= w2id[Chomp(lines[j])]

\* a vocabulary of several tokens whose ids differ was written
VocabularyFileLayoutWitness ==
    /\ last.op = "create_vocabulary" /\ last.outcome = "done"
    /\ Cardinality({w2id[t] : t \in DOMAIN w2id}) > 2

\* C10: data_to_token_ids called with neither its target nor the vocabulary
\* file there fails with the vocabulary-not-found error and leaves the file
\* system as it was; so the target is still missing, and a call made when
\* the vocabulary and the data exist does the work instead of skipping.
MissingVocabularyLeavesNoTarget ==
    [][ last'.op = "data_to_token_ids" =>
          LET target == ids_path(last'.arg[1], last'.arg[2])
              data == set_path(last'.arg[1]) \o last'.arg[2]
          IN  /\ (~Exists(files, target) /\ ~Exists(files, vocab_path)) =>
                    /\ last'.outcome = "vocabulary_not_found"
                    /\ files' = files
              /\ ( /\ ~Exists(files, target)
                   /\ Exists(files, vocab_path)
                   /\ Exists(files, data) ) =>
                    /\ last'.outcome = "done"
                    /\ \/ Exists(files', target)
                       \/ files[data] = <<>>
      ]_vars

\* the call failed for want of the vocabulary alone: its data file is there
MissingVocabularyWitness ==
    /\ last.op = "data_to_token_ids"
    /\ last.outcome = "vocabulary_not_found"
    /\ Exists(files, set_path(last.arg[1]) \o last.arg[2])
    /\ ~Exists(files, ids_path(last.arg[1], last.arg[2]))

====
